---- MODULE Spec2Model ----
(***************************************************************************)
(* Model of IOCtlSrc, the Linux optical-drive backend of the CDVD disc     *)
(* reader: Reopen, ReadDVDInfo, ReadCDInfo, DiscReady, ReadSectors2048,    *)
(* the destructor, and the OS calls they issue.                            *)
(*                                                                         *)
(* u32 values are records [hi, lo] of two 16-bit limbs and 64-bit values   *)
(* are 4-tuples of 16-bit limbs (least significant first), so that the     *)
(* arithmetic wraps where the C++ arithmetic wraps.                        *)
(***************************************************************************)
EXTENDS Integers, Sequences, FiniteSets, TLC

\* ------------------------------------------------------------------------
\* Fixed-width arithmetic
\* ------------------------------------------------------------------------
W16 == 2 ^ 16

U32(h, l) == [hi |-> h, lo |-> l]

FromInt(x) == U32(x \div W16, x % W16)

Zero32 == U32(0, 0)

One32 == U32(0, 1)

Max32 == U32(W16 - 1, W16 - 1)

\* a + b in u32
Add32(a, b) ==
    LET l == a.lo + b.lo
        h == a.hi + b.hi + (l \div W16)
    IN  U32(h % W16, l % W16)

\* a - b in u32
Sub32(a, b) ==
    LET l == a.lo - b.lo
        borrow == IF l < 0 THEN 1 ELSE 0
        h == a.hi - b.hi - borrow
    IN  U32(h % W16, l % W16)

\* ~a & 0xFFFFFFU
NotMask24(a) == U32((W16 - 1 - a.hi) % 256, W16 - 1 - a.lo)

\* static_cast<u32>(int)
S32ToU32(x) ==
    IF x >= 0 THEN FromInt(x)
    ELSE LET y == x + 1 + 2147483647
         IN  U32((y \div W16) + 32768, y % W16)

\* !!m_sectors
NonZero32(a) == a # Zero32

\* ------------------------------------------------------------------------
\* Program constants
\* ------------------------------------------------------------------------
NoDevice == -1

CDS_DISC_OK == 4

CDSL_CURRENT == 2147483647

LeadOutTrack == 170

\* ------------------------------------------------------------------------
\* Bounds and the device's possible answers
\* ------------------------------------------------------------------------
\* per-track TOC reads explored within one CD probe
MaxTrackReads == 3

\* descriptors left in the process's descriptor table; open() fails with
\* EMFILE once they are all in use
MaxFds == 2

Fds == 3 .. (2 + MaxFds)

\* errno values open() reports when the path cannot be opened
Errnos == {2, 123}

DriveStatuses == {-1, 1, 2, CDS_DISC_OK}

StartSamples == {FromInt(196608), FromInt(0), Max32}

EndSamples == {FromInt(200000), FromInt(16), U32(255, 65535)}

L0Samples == {FromInt(198000), Max32, Zero32}

Layer1Samples == {[start_sector |-> FromInt(196608), end_sector |-> FromInt(199999)],
                  [start_sector |-> FromInt(5), end_sector |-> FromInt(4)]}

\* what DVD_READ_STRUCT answers: ok0/ok1 are the results of the layer-0 and
\* layer-1 queries, the rest is the returned dvd_layer data
DvdFail == [ok0 |-> FALSE, ok1 |-> FALSE, nlayers |-> 0, track_path |-> 0,
            start_sector |-> Zero32, end_sector |-> Zero32,
            end_sector_l0 |-> Zero32,
            layer1 |-> [start_sector |-> Zero32, end_sector |-> Zero32]]

DvdGeometries ==
    {DvdFail} \cup
    [ok0 : {TRUE}, ok1 : {FALSE}, nlayers : {0}, track_path : {0},
     start_sector : StartSamples, end_sector : EndSamples,
     end_sector_l0 : {Zero32},
     layer1 : {[start_sector |-> Zero32, end_sector |-> Zero32]}] \cup
    [ok0 : {TRUE}, ok1 : {TRUE}, nlayers : {1}, track_path : {0},
     start_sector : StartSamples, end_sector : EndSamples,
     end_sector_l0 : {Zero32},
     layer1 : Layer1Samples] \cup
    {[DvdFail EXCEPT !.ok0 = TRUE, !.nlayers = 1]} \cup
    [ok0 : {TRUE}, ok1 : {FALSE}, nlayers : {1}, track_path : {1},
     start_sector : StartSamples, end_sector : EndSamples,
     end_sector_l0 : L0Samples,
     layer1 : {[start_sector |-> Zero32, end_sector |-> Zero32]}]

\* the discs tried together with every CD answer: no DVD, a single-layer
\* disc, one whose sector count wraps to 0, a parallel-track disc with and
\* without a readable layer 1, an opposite-track disc
DvdAnswers ==
    {d \in DvdGeometries :
        \/ ~d.ok0
        \/ d.nlayers = 1 /\ d.track_path = 0 /\ ~d.ok1
        \/ /\ d.start_sector = FromInt(196608)
           /\ d.end_sector = FromInt(200000)
           /\ d.track_path = 1 => d.end_sector_l0 = FromInt(198000)
           /\ d.ok1 => d.layer1.start_sector = FromInt(196608)}
    \cup {[DvdFail EXCEPT !.ok0 = TRUE, !.end_sector = Max32]}

\* what CDROMREADTOCHDR answers
HdrFail == [ok |-> FALSE, cdth_trk0 |-> 0, cdth_trk1 |-> 0]

HdrAnswers ==
    {HdrFail} \cup
    {[ok |-> TRUE, cdth_trk0 |-> p[1], cdth_trk1 |-> p[2]] :
        p \in {<<1, 1>>, <<1, 2>>, <<2, 1>>, <<255, 255>>}}

\* what CDROMREADTOCENTRY answers
EntryFail == [ok |-> FALSE, lba |-> 0, adr |-> 0, ctrl |-> 0]

EntryAnswers ==
    {EntryFail} \cup [ok : {TRUE}, lba : {0, 150}, adr : {1}, ctrl : {4}]

LeadOutAnswers ==
    {EntryFail} \cup [ok : {TRUE}, lba : {0, 300000, -1}, adr : {1}, ctrl : {4}]

\* ------------------------------------------------------------------------
\* State
\* ------------------------------------------------------------------------
VARIABLES
    m_device,       \* file descriptor, NoDevice when not open
    m_sectors,      \* u32
    m_layer_break,  \* u32
    m_media_type,   \* s32
    m_toc,          \* sequence of toc_entry
    pc,             \* "idle", "cd_loop" (inside ReadCDInfo's for loop), "destroyed"
    op,             \* the public operation running or last completed
    n,              \* ReadCDInfo's u8 loop counter
    header,         \* ReadCDInfo's cdrom_tochdr
    ret,            \* return value of the last completed operation
    error,          \* the Error* argument of Reopen: [nonnull, code]
    calls,          \* OS calls issued by the running / last operation, in order
    written,        \* geometry fields assigned by the running / last operation
    probed,         \* geometry fields whose value was assigned by a probe
    fds,            \* file descriptors open in the OS
    badClose,       \* a close() was issued on a descriptor that was not open
    args,           \* arguments of the running / last operation
    tocBefore,      \* m_toc when the running / last operation was called
    buffer          \* frames the running / last operation copied into its
                    \* output buffer: sequence of [offset, frame]

vars == <<m_device, m_sectors, m_layer_break, m_media_type, m_toc, pc, op, n,
          header, ret, error, calls, written, probed, fds, badClose, args,
          tocBefore, buffer>>

\* one OS call: its name, its distinguishing argument, whether it succeeded
\* and the integer it returned
Call(c, a, r) == [call |-> c, arg |-> a, ok |-> r, val |-> IF r THEN 0 ELSE -1]

NoArgs == [sector |-> Zero32, count |-> Zero32]

NullError == [nonnull |-> FALSE, code |-> 0]

Geometry == {"m_sectors", "m_layer_break", "m_media_type"}

Init ==
    /\ m_device = NoDevice
    /\ m_sectors = Zero32
    /\ m_layer_break = Zero32
    /\ m_media_type = 0
    /\ m_toc = <<>>
    /\ pc = "idle"
    /\ op = "none"
    /\ n = 0
    /\ header = HdrFail
    /\ ret = FALSE
    /\ error = NullError
    /\ calls = <<>>
    /\ written = {}
    /\ probed = {}
    /\ fds = {}
    /\ badClose = FALSE
    /\ args = NoArgs
    /\ tocBefore = <<>>
    /\ buffer = <<>>

\* ------------------------------------------------------------------------
\* The operating system
\* ------------------------------------------------------------------------
\* os is [fds, badClose]

\* close(fd)
OsClose(os, fd) ==
    [fds |-> os.fds \ {fd}, badClose |-> os.badClose \/ fd \notin os.fds]

\* open() returns the lowest descriptor not in use
LowestFree(open) == CHOOSE f \in Fds \ open : \A g \in Fds \ open : f <= g

\* open(path, O_RDONLY | O_NONBLOCK) with the outcome o = [ok, errno] the
\* device path allows: [fd, errno, os]
OsOpen(os, o) ==
    IF Fds \ os.fds = {} THEN [fd |-> -1, errno |-> 24, os |-> os]
    ELSE IF ~o.ok THEN [fd |-> -1, errno |-> o.errno, os |-> os]
    ELSE LET f == LowestFree(os.fds)
         IN  [fd |-> f, errno |-> 0, os |-> [os EXCEPT !.fds = @ \cup {f}]]

OpenAnswers == {[ok |-> TRUE, errno |-> 0]} \cup [ok : {FALSE}, errno : Errnos]

\* the answers that matter: the drive is asked for its DVD structure only
\* once the device is open, and for its TOC header only when ReadDVDInfo
\* has failed
DvdChoices(o) == IF o.ok THEN DvdAnswers ELSE {DvdFail}

HdrChoices(o, d) ==
    IF o.ok /\ ~(d.ok0 /\ (d.nlayers = 0 \/ d.track_path # 0 \/ d.ok1))
    THEN HdrAnswers ELSE {HdrFail}

\* the open() call as recorded: the descriptor returned and errno
OpenCall(fd, errno) ==
    [call |-> "open", arg |-> 0, ok |-> fd # -1, val |-> fd, errno |-> errno]

\* Error::SetErrno(error, errno)
SetErrno(e, errno) == IF e.nonnull THEN [e EXCEPT !.code = errno] ELSE e

\* ------------------------------------------------------------------------
\* Geometry probes
\* ------------------------------------------------------------------------
\* g is [m_sectors, m_layer_break, m_media_type]

\* the DVD_READ_STRUCT call for layer_num = layer, with the dvd_struct d the
\* drive returns
DvdCall(layer, r, d) ==
    [call |-> "DVD_READ_STRUCT", arg |-> layer, ok |-> r,
     val |-> IF r THEN 0 ELSE -1, data |-> d]

\* SingleSectors without the + 1
SingleSectors_EndMinusStart(start_sector, end_sector) ==
    Sub32(end_sector, start_sector)

\* m_sectors of a single-layer disc: end_sector - start_sector + 1
SingleSectors(start_sector, end_sector) ==
    Add32(Sub32(end_sector, start_sector), One32)

\* ParallelSectors counting layer 1 from the start of layer 0
ParallelSectors_Layer0Start(start_sector, end_sector, layer1_start_sector, layer1_end_sector) ==
    Add32(Sub32(Add32(Add32(Sub32(end_sector, start_sector), One32),
                      layer1_end_sector),
                start_sector),
          One32)

\* m_sectors of a parallel-track disc:
\* end_sector - start_sector + 1 + layer1_end_sector - layer1_start_sector + 1
ParallelSectors(start_sector, end_sector, layer1_start_sector, layer1_end_sector) ==
    Add32(Sub32(Add32(Add32(Sub32(end_sector, start_sector), One32),
                      layer1_end_sector),
                layer1_start_sector),
          One32)

\* OppositeSectors subtracting end_sector_layer0 itself
OppositeSectors_NoComplement(start_sector, end_sector, end_sector_layer0) ==
    Add32(Sub32(Add32(Add32(Sub32(end_sector_layer0, start_sector), One32),
                      end_sector),
                end_sector_layer0),
          One32)

\* m_sectors of an opposite-track disc: end_sector_layer0 - start_sector + 1
\* + end_sector - (~end_sector_layer0 & 0xFFFFFFU) + 1
OppositeSectors(start_sector, end_sector, end_sector_layer0) ==
    Add32(Sub32(Add32(Add32(Sub32(end_sector_layer0, start_sector), One32),
                      end_sector),
                NotMask24(end_sector_layer0)),
          One32)

\* ReadDVDInfo assigning m_media_type and m_layer_break ahead of the layer-1
\* query
ReadDVDInfo_AssignsBeforeLayer1(g, d) ==
    IF ~d.ok0
    THEN [ret |-> FALSE, g |-> g, calls |-> <<DvdCall(0, FALSE, d)>>,
          written |-> {}]
    ELSE
      LET start_sector == d.start_sector
          end_sector == d.end_sector
      IN
      IF d.nlayers = 0
      THEN \* Single layer
           [ret |-> TRUE,
            g |-> [m_media_type |-> 0,
                   m_layer_break |-> Zero32,
                   m_sectors |-> SingleSectors(start_sector, end_sector)],
            calls |-> <<DvdCall(0, TRUE, d)>>,
            written |-> Geometry]
      ELSE IF d.track_path = 0
      THEN \* Dual layer, Parallel Track Path
           IF ~d.ok1
           THEN [ret |-> FALSE,
                 g |-> [g EXCEPT !.m_media_type = 1,
                                 !.m_layer_break = Sub32(end_sector, start_sector)],
                 calls |-> <<DvdCall(0, TRUE, d), DvdCall(1, FALSE, d)>>,
                 written |-> {"m_media_type", "m_layer_break"}]
           ELSE
             LET layer1_start_sector == d.layer1.start_sector
                 layer1_end_sector == d.layer1.end_sector
             IN  [ret |-> TRUE,
                  g |-> [m_media_type |-> 1,
                         m_layer_break |-> Sub32(end_sector, start_sector),
                         m_sectors |->
                            ParallelSectors(start_sector, end_sector,
                                            layer1_start_sector,
                                            layer1_end_sector)],
                  calls |-> <<DvdCall(0, TRUE, d), DvdCall(1, TRUE, d)>>,
                  written |-> Geometry]
      ELSE \* Dual layer, Opposite Track Path
           LET end_sector_layer0 == d.end_sector_l0
           IN  [ret |-> TRUE,
                g |-> [m_media_type |-> 2,
                       m_layer_break |-> Sub32(end_sector_layer0, start_sector),
                       m_sectors |->
                          OppositeSectors(start_sector, end_sector,
                                          end_sector_layer0)],
                calls |-> <<DvdCall(0, TRUE, d)>>,
                written |-> Geometry]

\* IOCtlSrc::ReadDVDInfo with the drive answering d:
\* [ret, g, calls, written]
ReadDVDInfo(g, d) ==
    IF ~d.ok0
    THEN [ret |-> FALSE, g |-> g, calls |-> <<DvdCall(0, FALSE, d)>>,
          written |-> {}]
    ELSE
      LET start_sector == d.start_sector
          end_sector == d.end_sector
      IN
      IF d.nlayers = 0
      THEN \* Single layer
           [ret |-> TRUE,
            g |-> [m_media_type |-> 0,
                   m_layer_break |-> Zero32,
                   m_sectors |-> SingleSectors(start_sector, end_sector)],
            calls |-> <<DvdCall(0, TRUE, d)>>,
            written |-> Geometry]
      ELSE IF d.track_path = 0
      THEN \* Dual layer, Parallel Track Path
           IF ~d.ok1
           THEN [ret |-> FALSE, g |-> g,
                 calls |-> <<DvdCall(0, TRUE, d), DvdCall(1, FALSE, d)>>,
                 written |-> {}]
           ELSE
             LET layer1_start_sector == d.layer1.start_sector
                 layer1_end_sector == d.layer1.end_sector
             IN  [ret |-> TRUE,
                  g |-> [m_media_type |-> 1,
                         m_layer_break |-> Sub32(end_sector, start_sector),
                         m_sectors |->
                            ParallelSectors(start_sector, end_sector,
                                            layer1_start_sector,
                                            layer1_end_sector)],
                  calls |-> <<DvdCall(0, TRUE, d), DvdCall(1, TRUE, d)>>,
                  written |-> Geometry]
      ELSE \* Dual layer, Opposite Track Path
           LET end_sector_layer0 == d.end_sector_l0
           IN  [ret |-> TRUE,
                g |-> [m_media_type |-> 2,
                       m_layer_break |-> Sub32(end_sector_layer0, start_sector),
                       m_sectors |->
                          OppositeSectors(start_sector, end_sector,
                                          end_sector_layer0)],
                calls |-> <<DvdCall(0, TRUE, d)>>,
                written |-> Geometry]

\* IOCtlSrc::SetSpindleSpeed does nothing; the call is recorded
SpindleCall(restore_defaults) ==
    [call |-> "SetSpindleSpeed", arg |-> IF restore_defaults THEN 1 ELSE 0,
     ok |-> TRUE, val |-> 0]

\* the CDROMREADTOCENTRY call for track k, with the cdrom_tocentry e the
\* drive returned
EntryCall(k, e) ==
    [call |-> "CDROMREADTOCENTRY", arg |-> k, ok |-> e.ok,
     val |-> IF e.ok THEN 0 ELSE -1, entry |-> e]

\* ReadCDInfoBegin with m_toc.clear() ahead of the header read
ReadCDInfoBegin_ClearFirst(toc, h) ==
    IF ~h.ok
    THEN [entered |-> FALSE, m_toc |-> <<>>, n |-> 0, header |-> HdrFail,
          calls |-> <<Call("CDROMREADTOCHDR", 0, FALSE)>>]
    ELSE [entered |-> TRUE, m_toc |-> <<>>, n |-> h.cdth_trk0, header |-> h,
          calls |-> <<Call("CDROMREADTOCHDR", 0, TRUE)>>]

\* ReadCDInfoBegin without m_toc.clear()
ReadCDInfoBegin_NoClear(toc, h) ==
    IF ~h.ok
    THEN [entered |-> FALSE, m_toc |-> toc, n |-> 0, header |-> HdrFail,
          calls |-> <<Call("CDROMREADTOCHDR", 0, FALSE)>>]
    ELSE [entered |-> TRUE, m_toc |-> toc, n |-> h.cdth_trk0, header |-> h,
          calls |-> <<Call("CDROMREADTOCHDR", 0, TRUE)>>]

\* IOCtlSrc::ReadCDInfo up to the entry of its for loop, with the drive
\* answering h to CDROMREADTOCHDR: [entered, m_toc, n, header, calls]
ReadCDInfoBegin(toc, h) ==
    IF ~h.ok
    THEN [entered |-> FALSE, m_toc |-> toc, n |-> 0, header |-> HdrFail,
          calls |-> <<Call("CDROMREADTOCHDR", 0, FALSE)>>]
    ELSE [entered |-> TRUE, m_toc |-> <<>>, n |-> h.cdth_trk0, header |-> h,
          calls |-> <<Call("CDROMREADTOCHDR", 0, TRUE)>>]

\* one iteration of ReadCDInfo's for loop with the drive answering e:
\* [m_toc, n, calls]
ReadCDInfoIterate(toc, k, e) ==
    [m_toc |-> IF e.ok
               THEN Append(toc, [lba |-> S32ToU32(e.lba), track |-> k,
                                 adr |-> e.adr, ctrl |-> e.ctrl])
               ELSE toc,
     n |-> (k + 1) % 256,
     calls |-> <<EntryCall(k, e)>>]

\* ReadCDInfoEnd assigning m_sectors and m_media_type ahead of the check of
\* the lead-out read
ReadCDInfoEnd_AssignsBeforeCheck(g, e) ==
    [ret |-> e.ok,
     g |-> [g EXCEPT !.m_sectors = S32ToU32(e.lba), !.m_media_type = -1],
     calls |-> <<EntryCall(LeadOutTrack, e)>>,
     written |-> {"m_sectors", "m_media_type"}]

\* ReadCDInfo after its loop, with the drive answering e for the lead-out:
\* [ret, g, calls, written]
ReadCDInfoEnd(g, e) ==
    IF ~e.ok
    THEN [ret |-> FALSE, g |-> g,
          calls |-> <<EntryCall(LeadOutTrack, e)>>,
          written |-> {}]
    ELSE [ret |-> TRUE,
          g |-> [g EXCEPT !.m_sectors = S32ToU32(e.lba), !.m_media_type = -1],
          calls |-> <<EntryCall(LeadOutTrack, e)>>,
          written |-> {"m_sectors", "m_media_type"}]

\* ------------------------------------------------------------------------
\* Reopen
\* ------------------------------------------------------------------------
\* s is the session [m_device, g, m_toc, os]

\* ReopenClose without the close: the old descriptor stays open
ReopenClose_NoClose(s) == [os |-> s.os, calls |-> <<>>]

\* if (m_device != -1) close(m_device)
ReopenClose(s) ==
    IF s.m_device # NoDevice
    THEN [os |-> OsClose(s.os, s.m_device),
          calls |-> <<Call("close", s.m_device, TRUE)>>]
    ELSE [os |-> s.os, calls |-> <<>>]

\* ReopenProbe with | in place of ||: ReadCDInfo runs whatever ReadDVDInfo
\* returned
ReopenProbe_NoShortCircuit(g, toc, d, h) ==
    LET dvd == ReadDVDInfo(g, d)
        cd == ReadCDInfoBegin(toc, h)
    IN  [done |-> ~cd.entered, ret |-> dvd.ret, g |-> dvd.g,
         m_toc |-> cd.m_toc, n |-> cd.n, header |-> cd.header,
         calls |-> dvd.calls \o cd.calls, written |-> dvd.written]

\* ReadDVDInfo() || ReadCDInfo(), up to the entry of ReadCDInfo's loop:
\* [done, ret, g, m_toc, n, header, calls, written]
ReopenProbe(g, toc, d, h) ==
    LET dvd == ReadDVDInfo(g, d)
        cd == ReadCDInfoBegin(toc, h)
    IN  IF dvd.ret
        THEN [done |-> TRUE, ret |-> TRUE, g |-> dvd.g, m_toc |-> toc, n |-> 0,
              header |-> HdrFail, calls |-> dvd.calls, written |-> dvd.written]
        ELSE [done |-> ~cd.entered, ret |-> FALSE, g |-> dvd.g,
              m_toc |-> cd.m_toc, n |-> cd.n, header |-> cd.header,
              calls |-> dvd.calls \o cd.calls, written |-> dvd.written]

\* ReopenReturn returning the result of the probes
ReopenReturn_ProbeResult(probe_ok) == probe_ok

\* return true, the last statement of Reopen; probe_ok is the value of
\* ReadDVDInfo() || ReadCDInfo()
ReopenReturn(probe_ok) == TRUE

\* IOCtlSrc::Reopen(error) up to its return or to the entry of ReadCDInfo's
\* loop, with the answers o (open), d (DVD_READ_STRUCT), h (CDROMREADTOCHDR):
\* [pc, ret, m_device, g, m_toc, os, error, n, header, calls, written]
Reopen(s, err, o, d, h) ==
    LET c == ReopenClose(s)
        opened == OsOpen(c.os, o)
        openCall == <<OpenCall(opened.fd, opened.errno)>>
        probe == ReopenProbe(s.g, s.m_toc, d, h)
    IN  IF opened.fd = -1
        THEN [pc |-> "idle", ret |-> FALSE, m_device |-> opened.fd, g |-> s.g,
              m_toc |-> s.m_toc, os |-> opened.os,
              error |-> SetErrno(err, opened.errno), n |-> 0,
              header |-> HdrFail, calls |-> c.calls \o openCall,
              written |-> {}]
        ELSE [pc |-> IF probe.done THEN "idle" ELSE "cd_loop",
              ret |-> ReopenReturn(probe.ret),
              m_device |-> opened.fd, g |-> probe.g, m_toc |-> probe.m_toc,
              os |-> opened.os, error |-> err, n |-> probe.n,
              header |-> probe.header,
              calls |-> c.calls \o openCall \o probe.calls \o
                        (IF probe.ret THEN <<SpindleCall(FALSE)>> ELSE <<>>),
              written |-> probe.written]

\* the session and the geometry as records
Session ==
    [m_device |-> m_device,
     g |-> [m_sectors |-> m_sectors, m_layer_break |-> m_layer_break,
            m_media_type |-> m_media_type],
     m_toc |-> m_toc,
     os |-> [fds |-> fds, badClose |-> badClose]]

\* the variables take the values of the result r of Reopen or DiscReady
Assign(r) ==
    /\ pc' = r.pc
    /\ ret' = r.ret
    /\ m_device' = r.m_device
    /\ m_sectors' = r.g.m_sectors
    /\ m_layer_break' = r.g.m_layer_break
    /\ m_media_type' = r.g.m_media_type
    /\ m_toc' = r.m_toc
    /\ fds' = r.os.fds
    /\ badClose' = r.os.badClose
    /\ error' = r.error
    /\ n' = r.n
    /\ header' = r.header
    /\ calls' = r.calls
    /\ written' = r.written

\* a caller invokes Reopen(error) with a null or a fresh Error
CallReopen ==
    /\ pc = "idle"
    /\ \E nonnull \in BOOLEAN, o \in OpenAnswers :
        \E d \in DvdChoices(o) :
        \E h \in HdrChoices(o, d) :
          Assign(Reopen(Session, [nonnull |-> nonnull, code |-> 0], o, d, h))
    /\ op' = "Reopen"
    /\ probed' = probed \cup written'
    /\ args' = NoArgs
    /\ tocBefore' = m_toc
    /\ buffer' = <<>>

\* ------------------------------------------------------------------------
\* DiscReady
\* ------------------------------------------------------------------------
\* value DiscReady returns: !!m_sectors
DiscReadyReturn(sectors) == NonZero32(sectors)

StatusCall(st) ==
    [call |-> "CDROM_DRIVE_STATUS", arg |-> CDSL_CURRENT, ok |-> st # -1,
     val |-> st]

\* the session left as it is by an operation that returns rv after the calls cs
Untouched(s, rv, cs) ==
    [pc |-> "idle", ret |-> rv, m_device |-> s.m_device, g |-> s.g,
     m_toc |-> s.m_toc, os |-> s.os, error |-> NullError, n |-> 0,
     header |-> HdrFail, calls |-> cs, written |-> {}]

\* DiscReadyReset without m_layer_break = 0
DiscReadyReset_KeepsLayerBreak(g) ==
    [m_sectors |-> Zero32, m_layer_break |-> g.m_layer_break, m_media_type |-> 0]

\* the else branch of DiscReady: geometry reset
DiscReadyReset(g) ==
    [m_sectors |-> Zero32, m_layer_break |-> Zero32, m_media_type |-> 0]

\* DiscReadyNoDevice without the early return: falls through to the status
\* query, which fails on descriptor -1, and to the reset
DiscReadyNoDevice_FallsThrough(s) ==
    [Untouched(s, FALSE, <<[call |-> "CDROM_DRIVE_STATUS", arg |-> CDSL_CURRENT,
                            ok |-> FALSE, val |-> -1]>>)
        EXCEPT !.g = [m_sectors |-> Zero32, m_layer_break |-> Zero32,
                      m_media_type |-> 0]]

\* if (m_device == -1) return false
DiscReadyNoDevice(s) == Untouched(s, FALSE, <<>>)

\* DiscReadyNeedsReopen reopening on every "disc present"
DiscReadyNeedsReopen_Always(g) == TRUE

\* if (!m_sectors)
DiscReadyNeedsReopen(g) == ~NonZero32(g.m_sectors)

\* IOCtlSrc::DiscReady up to its return or to the entry of ReadCDInfo's loop,
\* with the drive status st and the answers o, d, h to a triggered Reopen:
\* [r, reset] where r has the fields of Reopen's result
DiscReady(s, st, o, d, h) ==
    IF s.m_device = NoDevice
    THEN [r |-> DiscReadyNoDevice(s), reset |-> FALSE]
    ELSE IF st = CDS_DISC_OK
    THEN IF DiscReadyNeedsReopen(s.g)
         THEN LET r == Reopen(s, NullError, o, d, h)
              IN  [r |-> [r EXCEPT !.calls = <<StatusCall(st)>> \o @,
                                   !.ret = DiscReadyReturn(r.g.m_sectors)],
                   reset |-> FALSE]
         ELSE [r |-> Untouched(s, DiscReadyReturn(s.g.m_sectors),
                               <<StatusCall(st)>>),
               reset |-> FALSE]
    ELSE LET z == DiscReadyReset(s.g)
         IN  [r |-> [Untouched(s, DiscReadyReturn(z.m_sectors),
                               <<StatusCall(st)>>) EXCEPT !.g = z],
              reset |-> TRUE]

\* an ioctl on a descriptor that is not open fails with EBADF
StatusAnswers(s) == IF s.m_device \in s.os.fds THEN DriveStatuses ELSE {-1}

\* the open() answers that matter: DiscReady opens the device only on the
\* path that calls Reopen
ReopenChoices(s, st) ==
    IF s.m_device # NoDevice /\ st = CDS_DISC_OK /\ DiscReadyNeedsReopen(s.g)
    THEN OpenAnswers ELSE {[ok |-> FALSE, errno |-> 2]}

CallDiscReady ==
    /\ pc = "idle"
    /\ \E st \in StatusAnswers(Session) :
        \E o \in ReopenChoices(Session, st) :
        \E d \in DvdChoices(o) :
        \E h \in HdrChoices(o, d) :
          LET x == DiscReady(Session, st, o, d, h)
          IN  /\ Assign(x.r)
              /\ probed' = IF x.reset THEN {} ELSE probed \cup written'
    /\ op' = "DiscReady"
    /\ args' = NoArgs
    /\ tocBefore' = m_toc
    /\ buffer' = <<>>

\* ------------------------------------------------------------------------
\* Destructor
\* ------------------------------------------------------------------------
\* ~IOCtlSrc without close(m_device)
Destructor_NoClose(s) ==
    IF s.m_device # NoDevice
    THEN [os |-> s.os, calls |-> <<SpindleCall(TRUE)>>]
    ELSE [os |-> s.os, calls |-> <<>>]

\* IOCtlSrc::~IOCtlSrc: [os, calls]
Destructor(s) ==
    IF s.m_device # NoDevice
    THEN [os |-> OsClose(s.os, s.m_device),
          calls |-> <<SpindleCall(TRUE), Call("close", s.m_device, TRUE)>>]
    ELSE [os |-> s.os, calls |-> <<>>]

Destroy ==
    /\ pc = "idle"
    /\ LET r == Destructor(Session)
       IN  /\ fds' = r.os.fds
           /\ badClose' = r.os.badClose
           /\ calls' = r.calls
    /\ pc' = "destroyed"
    /\ op' = "~IOCtlSrc"
    /\ args' = NoArgs
    /\ written' = {}
    /\ error' = NullError
    /\ tocBefore' = m_toc
    /\ buffer' = <<>>
    /\ UNCHANGED <<m_device, m_sectors, m_layer_break, m_media_type, m_toc, n,
                   header, ret, probed>>

\* ------------------------------------------------------------------------
\* ReadCDInfo's loop
\* ------------------------------------------------------------------------
\* number of per-track CDROMREADTOCENTRY calls in a call sequence
TrackReads(cs) ==
    Cardinality({i \in 1 .. Len(cs) :
        cs[i].call = "CDROMREADTOCENTRY" /\ cs[i].arg # LeadOutTrack})

\* the loop condition n <= header.cdth_trk1 holds: one more iteration
CDLoopStep ==
    /\ pc = "cd_loop"
    /\ n <= header.cdth_trk1
    /\ TrackReads(calls) < MaxTrackReads
    /\ \E e \in EntryAnswers :
          LET r == ReadCDInfoIterate(m_toc, n, e)
          IN  /\ m_toc' = r.m_toc
              /\ n' = r.n
              /\ calls' = calls \o r.calls
    /\ UNCHANGED <<m_device, m_sectors, m_layer_break, m_media_type, pc, op,
                   header, ret, error, written, probed, fds, badClose, args,
                   tocBefore, buffer>>

\* the loop condition fails: lead-out read, then ReadCDInfo, Reopen and (when
\* it called Reopen) DiscReady return
CDLoopExit ==
    /\ pc = "cd_loop"
    /\ ~(n <= header.cdth_trk1)
    /\ \E e \in LeadOutAnswers :
          LET r == ReadCDInfoEnd(Session.g, e)
          IN  /\ m_sectors' = r.g.m_sectors
              /\ m_layer_break' = r.g.m_layer_break
              /\ m_media_type' = r.g.m_media_type
              /\ calls' = calls \o r.calls \o
                           (IF r.ret THEN <<SpindleCall(FALSE)>> ELSE <<>>)
              /\ written' = written \cup r.written
              /\ ret' = IF op = "DiscReady" THEN DiscReadyReturn(r.g.m_sectors)
                        ELSE ReopenReturn(r.ret)
    /\ pc' = "idle"
    /\ probed' = probed \cup written'
    /\ UNCHANGED <<m_device, m_toc, op, n, header, error, fds, badClose, args,
                   tocBefore, buffer>>

\* ------------------------------------------------------------------------
\* ReadTOC
\* ------------------------------------------------------------------------
\* IOCtlSrc::ReadTOC
ReadTOC(s) == s.m_toc

CallReadTOC ==
    /\ pc = "idle"
    /\ ret' = ReadTOC(Session)
    /\ calls' = <<>>
    /\ op' = "ReadTOC"
    /\ args' = NoArgs
    /\ written' = {}
    /\ error' = NullError
    /\ tocBefore' = m_toc
    /\ buffer' = <<>>
    /\ UNCHANGED <<m_device, m_sectors, m_layer_break, m_media_type, m_toc, pc,
                   n, header, probed, fds, badClose>>

\* ------------------------------------------------------------------------
\* ReadSectors2048
\* ------------------------------------------------------------------------
\* 64-bit values: <<l0, l1, l2, l3>>, 16-bit limbs, least significant first
Zero64 == <<0, 0, 0, 0>>

MinusOne64 == <<W16 - 1, W16 - 1, W16 - 1, W16 - 1>>

\* conversion of a u32 to a 64-bit type
Widen(a) == <<a.lo, a.hi, 0, 0>>

\* 2048 * count, both operands converted to unsigned int
Mul2048_32(a) ==
    LET v == (a.hi % 32) * W16 + a.lo
    IN  U32(v \div 32, (v % 32) * 2048)

\* sector * 2048ULL
Mul2048_64(a) ==
    LET x == Widen(a)
        v0 == x[1] * 2048
        v1 == x[2] * 2048 + (v0 \div W16)
        v2 == x[3] * 2048 + (v1 \div W16)
        v3 == x[4] * 2048 + (v2 \div W16)
    IN  <<v0 % W16, v1 % W16, v2 % W16, v3 % W16>>

\* const ssize_t bytes_to_read = 2048 * count
BytesToRead(count) == Widen(Mul2048_32(count))

\* what pread returns for a request of nbyte bytes: an error, everything, end
\* of file, or one sector of a longer request
PreadAnswers(s, nbyte) ==
    IF s.m_device \notin s.os.fds THEN {MinusOne64}
    ELSE {MinusOne64, nbyte, Zero64,
          IF nbyte = Zero64 THEN Zero64 ELSE <<2048, 0, 0, 0>>}

\* IOCtlSrc::ReadSectors2048(sector, count, buffer) with pread returning
\* bytes_read: [ret, calls]
ReadSectors2048(s, sector, count, bytes_read) ==
    LET bytes_to_read == BytesToRead(count)
    IN  [ret |-> bytes_read = bytes_to_read,
         calls |-> <<[call |-> "pread",
                      arg |-> [nbyte |-> bytes_to_read,
                               offset |-> Mul2048_64(sector)],
                      ok |-> bytes_read # MinusOne64,
                      val |-> bytes_read]>>]

SectorSamples == {FromInt(0), FromInt(16), U32(32, 0), Max32}

CountSamples == {FromInt(0), FromInt(1), FromInt(16), U32(32, 0), U32(32, 1),
                 Max32}

CallReadSectors2048 ==
    /\ pc = "idle"
    /\ \E sector \in SectorSamples, count \in CountSamples :
        \E bytes_read \in PreadAnswers(Session, BytesToRead(count)) :
          LET r == ReadSectors2048(Session, sector, count, bytes_read)
          IN  /\ ret' = r.ret
              /\ calls' = r.calls
              /\ args' = [sector |-> sector, count |-> count]
    /\ op' = "ReadSectors2048"
    /\ written' = {}
    /\ error' = NullError
    /\ tocBefore' = m_toc
    /\ buffer' = <<>>
    /\ UNCHANGED <<m_device, m_sectors, m_layer_break, m_media_type, m_toc, pc,
                   n, header, probed, fds, badClose>>

\* ------------------------------------------------------------------------
\* ReadSectors2352
\* ------------------------------------------------------------------------
CD_FRAMESIZE_RAW == 2352

\* sectors explored in one ReadSectors2352 call
MaxCount == 3

\* a < b in u32
Less32(a, b) == a.hi < b.hi \/ (a.hi = b.hi /\ a.lo < b.lo)

\* the raw frame the drive returns for the sector at lba
Frame(lba) == [sector |-> lba]

\* the CDROMREADRAW call for the sector at lba (its MSF address is
\* lba_to_msf(lba))
ReadRawCall(lba, r) == Call("CDROMREADRAW", lba, r)

\* ReadSectors2352Loop returning only after the loop: a failed read is
\* skipped
RECURSIVE ReadSectors2352Loop_NoFailFast(_, _, _, _, _, _)
ReadSectors2352Loop_NoFailFast(sector, count, fails, k, cs, buf) ==
    IF ~Less32(k, count)
    THEN [ret |-> TRUE, calls |-> cs, buffer |-> buf]
    ELSE LET lba == Add32(sector, k)
         IN  IF k \in fails
             THEN ReadSectors2352Loop_NoFailFast(sector, count, fails,
                      Add32(k, One32), Append(cs, ReadRawCall(lba, FALSE)), buf)
             ELSE ReadSectors2352Loop_NoFailFast(sector, count, fails,
                      Add32(k, One32), Append(cs, ReadRawCall(lba, TRUE)),
                      Append(buf, [offset |-> Len(buf) * CD_FRAMESIZE_RAW,
                                   frame |-> Frame(lba)]))

\* the for loop of ReadSectors2352 from n = k on, after the calls cs and the
\* copies buf; the reads at the indices in fails fail: [ret, calls, buffer]
RECURSIVE ReadSectors2352Loop(_, _, _, _, _, _)
ReadSectors2352Loop(sector, count, fails, k, cs, buf) ==
    IF ~Less32(k, count)
    THEN [ret |-> TRUE, calls |-> cs, buffer |-> buf]
    ELSE LET lba == Add32(sector, k)
         IN  IF k \in fails
             THEN [ret |-> FALSE, calls |-> Append(cs, ReadRawCall(lba, FALSE)),
                   buffer |-> buf]
             ELSE ReadSectors2352Loop(sector, count, fails, Add32(k, One32),
                      Append(cs, ReadRawCall(lba, TRUE)),
                      Append(buf, [offset |-> Len(buf) * CD_FRAMESIZE_RAW,
                                   frame |-> Frame(lba)]))

\* IOCtlSrc::ReadSectors2352(sector, count, buffer): [ret, calls, buffer]
ReadSectors2352(sector, count, fails) ==
    ReadSectors2352Loop(sector, count, fails, Zero32, <<>>, <<>>)

RawIndexes == {FromInt(i) : i \in 0 .. (MaxCount - 1)}

RawCounts == {FromInt(i) : i \in 0 .. MaxCount}

RawSectors == {FromInt(0), FromInt(16), Max32}

\* the indices at which CDROMREADRAW fails: any, and all of them on a
\* descriptor that is not open
FailurePatterns(s) ==
    IF s.m_device \in s.os.fds THEN SUBSET RawIndexes ELSE {RawIndexes}

CallReadSectors2352 ==
    /\ pc = "idle"
    /\ \E sector \in RawSectors, count \in RawCounts :
        \E fails \in FailurePatterns(Session) :
          LET r == ReadSectors2352(sector, count, fails)
          IN  /\ ret' = r.ret
              /\ calls' = r.calls
              /\ buffer' = r.buffer
              /\ args' = [sector |-> sector, count |-> count]
    /\ op' = "ReadSectors2352"
    /\ written' = {}
    /\ error' = NullError
    /\ tocBefore' = m_toc
    /\ UNCHANGED <<m_device, m_sectors, m_layer_break, m_media_type, m_toc, pc,
                   n, header, probed, fds, badClose>>

\* ------------------------------------------------------------------------
\* Specification
\* ------------------------------------------------------------------------
Next ==
    \/ CallReopen
    \/ CallDiscReady
    \/ CDLoopStep
    \/ CDLoopExit
    \/ CallReadTOC
    \/ Destroy

Spec == Init /\ [][Next]_vars

\* the sector reader on a session that Reopen has opened or failed to open
\* on an empty drive
CallReopenEmptyDrive ==
    /\ pc = "idle"
    /\ \E nonnull \in BOOLEAN, o \in OpenAnswers :
          Assign(Reopen(Session, [nonnull |-> nonnull, code |-> 0], o, DvdFail,
                        HdrFail))
    /\ op' = "Reopen"
    /\ probed' = probed \cup written'
    /\ args' = NoArgs
    /\ tocBefore' = m_toc
    /\ buffer' = <<>>

\* Reopen on every DVD geometry, in a drive that answers no CD request
CallReopenDvd ==
    /\ pc = "idle"
    /\ \E nonnull \in BOOLEAN, o \in OpenAnswers :
        \E d \in (IF o.ok THEN DvdGeometries ELSE {DvdFail}) :
          Assign(Reopen(Session, [nonnull |-> nonnull, code |-> 0], o, d,
                        HdrFail))
    /\ op' = "Reopen"
    /\ probed' = probed \cup written'
    /\ args' = NoArgs
    /\ tocBefore' = m_toc
    /\ buffer' = <<>>

NextDvd ==
    \/ CallReopenDvd
    \/ Destroy

SpecDvd == Init /\ [][NextDvd]_vars

NextSectors ==
    \/ CallReopenEmptyDrive
    \/ CallReadSectors2048
    \/ CallReadSectors2352
    \/ Destroy

SpecSectors == Init /\ [][NextSectors]_vars

\* ------------------------------------------------------------------------
\* Reading the record of the running / last operation
\* ------------------------------------------------------------------------
Issued(c) == \E i \in DOMAIN calls : calls[i].call = c

IssuedWith(c, r) == \E i \in DOMAIN calls : calls[i].call = c /\ calls[i].ok = r

\* the operation has returned
Returned == pc = "idle"

\* Reopen ran, called directly or from DiscReady
ReopenRan == op \in {"Reopen", "DiscReady"} /\ Issued("open")

OpenSucceeded == IssuedWith("open", TRUE)

OpenFailed == IssuedWith("open", FALSE)

\* ReadDVDInfo ran and none of its queries failed
DvdProbeSucceeded ==
    Issued("DVD_READ_STRUCT") /\ ~IssuedWith("DVD_READ_STRUCT", FALSE)

DvdProbeFailed == IssuedWith("DVD_READ_STRUCT", FALSE)

\* ReadCDInfo ran and its lead-out read succeeded
CdProbeSucceeded ==
    \E i \in DOMAIN calls :
        /\ calls[i].call = "CDROMREADTOCENTRY"
        /\ calls[i].arg = LeadOutTrack
        /\ calls[i].ok

\* ReadCDInfo ran and failed at the header or at the lead-out
CdProbeFailed ==
    \/ IssuedWith("CDROMREADTOCHDR", FALSE)
    \/ \E i \in DOMAIN calls :
        /\ calls[i].call = "CDROMREADTOCENTRY"
        /\ calls[i].arg = LeadOutTrack
        /\ ~calls[i].ok

CdCalls == {"CDROMREADTOCHDR", "CDROMREADTOCENTRY"}

ProbeCalls == CdCalls \cup {"DVD_READ_STRUCT"}

\* the drive status DiscReady observed
StatusSeen(st) ==
    /\ op = "DiscReady"
    /\ Len(calls) >= 1
    /\ calls[1].call = "CDROM_DRIVE_STATUS"
    /\ calls[1].val = st

\* ------------------------------------------------------------------------
\* C1
\* ------------------------------------------------------------------------
\* C1: after a Reopen (direct or from DiscReady) in which a probe succeeded,
\* no geometry field holds a value that an earlier probe wrote: every field
\* that a probe has written was written by this Reopen's probe.
C1_AllFieldsRecomputed ==
    (Returned /\ ReopenRan /\ (DvdProbeSucceeded \/ CdProbeSucceeded))
        => probed \subseteq written

\* ------------------------------------------------------------------------
\* C2
\* ------------------------------------------------------------------------
\* C2: after a Reopen in which the device opened and both the DVD probe and
\* the CD probe failed, GetSectorCount() is 0.
C2_UnresolvedAfterFailedProbes ==
    (Returned /\ ReopenRan /\ OpenSucceeded /\ DvdProbeFailed /\ CdProbeFailed)
        => m_sectors = Zero32

\* ------------------------------------------------------------------------
\* C3
\* ------------------------------------------------------------------------
\* C3: in every Reopen that obtained a handle the first call on the new
\* handle is the DVD layer-0 query; CD calls are issued if and only if the
\* DVD probe failed, and only after the failing DVD query.
C3_DvdProbeFirst ==
    \A i \in DOMAIN calls :
        (calls[i].call = "open" /\ calls[i].ok) =>
            /\ Len(calls) > i
            /\ calls[i + 1].call = "DVD_READ_STRUCT"
            /\ calls[i + 1].arg = 0
            /\ Issued("CDROMREADTOCHDR") <=> DvdProbeFailed
            /\ \A j \in DOMAIN calls :
                  calls[j].call \in CdCalls =>
                      \E k \in 1 .. (j - 1) :
                          /\ k > i
                          /\ calls[k].call = "DVD_READ_STRUCT"
                          /\ ~calls[k].ok

\* a Reopen whose DVD probe failed and whose CD probe then ran to its end
C3_Witness ==
    /\ Returned
    /\ op = "Reopen"
    /\ DvdProbeFailed
    /\ CdProbeSucceeded
    /\ Len(m_toc) > 0

\* ------------------------------------------------------------------------
\* C4
\* ------------------------------------------------------------------------
\* C4: when the open() of Reopen fails, Reopen returns false, a non-null
\* error receives the errno of the open, the session has no handle and no
\* descriptor is left open, and no probe call is issued.
C4_OpenFailure ==
    (Returned /\ ReopenRan /\ OpenFailed) =>
        /\ op = "Reopen" => ~ret
        /\ m_device = NoDevice
        /\ fds = {}
        /\ \A i \in DOMAIN calls : calls[i].call \notin ProbeCalls
        /\ \A i \in DOMAIN calls :
              (calls[i].call = "open" /\ error.nonnull) =>
                  (error.code = calls[i].errno /\ error.code # 0)

\* a Reopen on an open session whose open() fails, with an error sink
C4_Witness ==
    /\ Returned
    /\ op = "Reopen"
    /\ OpenFailed
    /\ Issued("close")
    /\ error.nonnull
    /\ error.code = 123

\* ------------------------------------------------------------------------
\* C5
\* ------------------------------------------------------------------------
\* C5: Reopen returns true exactly when its open() succeeded, whatever the
\* probes did.
C5_ReturnsOpenResult ==
    (Returned /\ op = "Reopen") => (ret <=> OpenSucceeded)

\* a Reopen that opened the device, failed both probes and returned true
C5_Witness ==
    /\ Returned
    /\ op = "Reopen"
    /\ OpenSucceeded
    /\ DvdProbeFailed
    /\ CdProbeFailed
    /\ ret

\* ------------------------------------------------------------------------
\* C6
\* ------------------------------------------------------------------------
\* the step is a call of DiscReady
DiscReadyStep == pc = "idle" /\ op' = "DiscReady"

\* the drive status the DiscReady of this step observed
StatusSeenNext(st) ==
    /\ Len(calls') >= 1
    /\ calls'[1].call = "CDROM_DRIVE_STATUS"
    /\ calls'[1].val = st

\* C6: a DiscReady call runs Reopen exactly when a handle is open, the status
\* is "disc present" and m_sectors is 0 at the call; with "disc present" and
\* m_sectors # 0 its only call is the status query and handle, geometry and
\* TOC are unchanged.
C6_ReopenExactlyWhenUnresolved ==
    [][DiscReadyStep =>
        /\ (\E i \in DOMAIN calls' : calls'[i].call \in {"open", "close"})
              <=> (/\ m_device # NoDevice
                   /\ StatusSeenNext(CDS_DISC_OK)
                   /\ m_sectors = Zero32)
        /\ (m_device # NoDevice /\ StatusSeenNext(CDS_DISC_OK) /\ m_sectors # Zero32)
              => /\ Len(calls') = 1
                 /\ UNCHANGED <<m_device, m_sectors, m_layer_break,
                                m_media_type, m_toc, fds>>]_vars

\* a DiscReady that saw "disc present" with resolved geometry and did nothing
C6_Witness ==
    /\ Returned
    /\ StatusSeen(CDS_DISC_OK)
    /\ Len(calls) = 1
    /\ m_sectors # Zero32
    /\ ret

\* ------------------------------------------------------------------------
\* C7
\* ------------------------------------------------------------------------
\* C7: after a DiscReady on an open handle whose status query reported
\* anything but "disc present", m_sectors, m_layer_break and m_media_type are
\* 0 and the call returned false.
C7_ResetWhenNoDisc ==
    (Returned /\ op = "DiscReady" /\ Len(calls) >= 1
        /\ calls[1].call = "CDROM_DRIVE_STATUS" /\ calls[1].val # CDS_DISC_OK)
    => /\ m_sectors = Zero32
       /\ m_layer_break = Zero32
       /\ m_media_type = 0
       /\ ~ret

\* a DiscReady that saw "no disc" on a session that had read a CD
C7_Witness ==
    /\ Returned
    /\ StatusSeen(1)
    /\ Len(m_toc) > 0
    /\ m_sectors = Zero32
    /\ ~ret

\* ------------------------------------------------------------------------
\* C8
\* ------------------------------------------------------------------------
\* C8: in every session state, DiscReady returns true if and only if
\* GetSectorCount() # 0 right after the call.
C8_ReturnsSectorsNonZero ==
    (Returned /\ op = "DiscReady") => (ret <=> m_sectors # Zero32)

\* ------------------------------------------------------------------------
\* C9
\* ------------------------------------------------------------------------
\* C9: DiscReady on a session without a handle returns false, issues no call
\* and leaves geometry and TOC unchanged.
C9_NoHandleNoEffect ==
    [][(DiscReadyStep /\ m_device = NoDevice) =>
        /\ ret' = FALSE
        /\ calls' = <<>>
        /\ UNCHANGED <<m_device, m_sectors, m_layer_break, m_media_type,
                       m_toc, fds>>]_vars

\* a DiscReady on a session that a failed Reopen left without a handle
C9_Witness ==
    /\ Returned
    /\ op = "DiscReady"
    /\ m_device = NoDevice
    /\ calls = <<>>
    /\ ~ret
    /\ Len(m_toc) > 0

\* ------------------------------------------------------------------------
\* C10
\* ------------------------------------------------------------------------
\* 2 * x for a 64-bit x
Double64(x) ==
    LET v0 == 2 * x[1]
        v1 == 2 * x[2] + (v0 \div W16)
        v2 == 2 * x[3] + (v1 \div W16)
        v3 == 2 * x[4] + (v2 \div W16)
    IN  <<v0 % W16, v1 % W16, v2 % W16, v3 % W16>>

\* 2048 * a for a u32 a, as a 64-bit value: below 2^43, so nothing is lost
Times2048(a) ==
    Double64(Double64(Double64(Double64(Double64(Double64(Double64(Double64(
        Double64(Double64(Double64(Widen(a))))))))))))

\* C10: ReadSectors2048(startSector, count) issues one pread of exactly
\* count * 2048 bytes at offset exactly startSector * 2048 and returns true
\* if and only if exactly count * 2048 bytes were read.
C10_ExactLengthAndOffset ==
    (Returned /\ op = "ReadSectors2048") =>
        /\ Len(calls) = 1
        /\ calls[1].call = "pread"
        /\ calls[1].arg.nbyte = Times2048(args.count)
        /\ calls[1].arg.offset = Times2048(args.sector)
        /\ ret <=> (calls[1].val = Times2048(args.count))

\* ------------------------------------------------------------------------
\* C11
\* ------------------------------------------------------------------------
\* number of sectors ReadSectors2352 was asked for, for the counts explored
CountOf(c) == c.lo

\* C11: ReadSectors2352 reads sectors startSector, startSector + 1, ... in
\* this order, one CDROMREADRAW each, and stops at the first failing read;
\* it returns true iff all count reads succeeded; when the read at index k
\* fails, the buffer holds exactly the k earlier frames at offsets
\* 0 .. (k-1) * 2352 and nothing at or after k * 2352, and no later sector
\* is read.
C11_FailFastInOrder ==
    (Returned /\ op = "ReadSectors2352") =>
        /\ \A i \in DOMAIN calls :
              /\ calls[i].call = "CDROMREADRAW"
              /\ calls[i].arg = Add32(args.sector, FromInt(i - 1))
              /\ ~calls[i].ok => i = Len(calls)
        /\ Len(calls) <= CountOf(args.count)
        /\ ret <=> (Len(calls) = CountOf(args.count)
                      /\ \A i \in DOMAIN calls : calls[i].ok)
        /\ ~ret => Len(calls) >= 1 /\ ~calls[Len(calls)].ok
        /\ Len(buffer) = Cardinality({i \in DOMAIN calls : calls[i].ok})
        /\ \A i \in DOMAIN buffer :
              /\ buffer[i].offset = (i - 1) * 2352
              /\ buffer[i].frame = Frame(calls[i].arg)

\* a read of three sectors whose third read failed after two frames were
\* copied
C11_Witness ==
    /\ Returned
    /\ op = "ReadSectors2352"
    /\ args.count = FromInt(3)
    /\ Len(calls) = 3
    /\ ~calls[3].ok
    /\ Len(buffer) = 2
    /\ ~ret

\* ------------------------------------------------------------------------
\* C12
\* ------------------------------------------------------------------------
\* a per-track TOC read that succeeded
IsTrackRead(c) ==
    c.call = "CDROMREADTOCENTRY" /\ c.arg # LeadOutTrack /\ c.ok

\* the TOC entries the per-track reads recorded in cs returned, in the order
\* of the reads
EntriesRead(cs) ==
    LET reads == SelectSeq(cs, IsTrackRead)
    IN  [i \in 1 .. Len(reads) |->
            [lba |-> S32ToU32(reads[i].entry.lba), track |-> reads[i].arg,
             adr |-> reads[i].entry.adr, ctrl |-> reads[i].entry.ctrl]]

AscendingTracks(toc) ==
    \A i, j \in DOMAIN toc : i < j => toc[i].track < toc[j].track

ProbingOps == {"Reopen", "DiscReady"}

\* ReadTOC returns m_toc, issues no call and changes nothing
ReadTOCIsAView ==
    (Returned /\ op = "ReadTOC") =>
        (ret = m_toc /\ calls = <<>> /\ m_toc = tocBefore)

\* C12 as claimed: after every Reopen / DiscReady the TOC is what the per-track
\* reads of its CD probe returned, in ascending track order, when that probe
\* succeeded, and is what it was before the call when the probe failed or did
\* not run; ReadTOC issues no call.
C12_TocUnaffectedByFailedReprobe ==
    /\ (Returned /\ op \in ProbingOps) =>
          IF CdProbeSucceeded
          THEN m_toc = EntriesRead(calls) /\ AscendingTracks(m_toc)
          ELSE m_toc = tocBefore
    /\ ReadTOCIsAView

\* C12 amended: after every Reopen / DiscReady the TOC is what the per-track
\* reads of its CD probe returned, in ascending track order, when that probe
\* read its header (whether or not its lead-out read then failed), and is
\* what it was before the call when no header was read; ReadTOC issues no
\* call.
C12_TocOfLastHeaderRead ==
    /\ (Returned /\ op \in ProbingOps) =>
          IF IssuedWith("CDROMREADTOCHDR", TRUE)
          THEN m_toc = EntriesRead(calls) /\ AscendingTracks(m_toc)
          ELSE m_toc = tocBefore
    /\ ReadTOCIsAView

\* a reprobe that failed at the lead-out and replaced a two-track TOC by the
\* one entry it had read
C12_Witness ==
    /\ Returned
    /\ op \in ProbingOps
    /\ CdProbeFailed
    /\ IssuedWith("CDROMREADTOCHDR", TRUE)
    /\ Len(tocBefore) = 2
    /\ Len(m_toc) = 1

IsDvdQuery(c) == c.call = "DVD_READ_STRUCT"

\* the DVD_READ_STRUCT calls of the running or last operation
DvdQueries == SelectSeq(calls, IsDvdQuery)

\* the dvd_struct the drive returned to the layer-0 query
Descriptor == DvdQueries[1].data

\* Reopen has returned and its DVD probe succeeded
DvdResolved == Returned /\ ReopenRan /\ DvdProbeSucceeded

\* ~a & 0xFFFFFF, as the 24-bit complement 0xFFFFFF - (a mod 2^24)
Complement24(a) == FromInt(16777215 - ((a.hi % 256) * W16 + a.lo))

\* the number of sectors first .. last, modulo 2^32
Extent(first, last) == Add32(Sub32(last, first), One32)

\* C13: for an opposite-track-path dual-layer DVD (nlayers > 0, track_path
\* not 0) with layer-0 start s0, end-of-layer-0 value L0 and end sector e1, a
\* successful DVD probe sets m_media_type = 2, m_layer_break = L0 - s0 and
\* m_sectors = (L0 - s0 + 1) + (e1 - (~L0 & 0xFFFFFF) + 1), modulo 2^32
C13_OppositeTrackGeometry ==
    (DvdResolved /\ Descriptor.nlayers > 0 /\ Descriptor.track_path # 0) =>
        LET s0 == Descriptor.start_sector
            L0 == Descriptor.end_sector_l0
            e1 == Descriptor.end_sector
        IN  /\ m_media_type = 2
            /\ m_layer_break = Sub32(L0, s0)
            /\ m_sectors = Add32(Extent(s0, L0), Extent(Complement24(L0), e1))

C13_Witness ==
    /\ DvdResolved
    /\ Descriptor.nlayers > 0
    /\ Descriptor.track_path # 0
    /\ Descriptor.start_sector = FromInt(196608)
    /\ Descriptor.end_sector_l0 = FromInt(198000)
    /\ m_media_type = 2
    /\ m_layer_break = FromInt(1392)

\* C14: for a parallel-track-path dual-layer DVD with layer-0 extent [s0, e0]
\* and layer-1 extent [s1, e1] obtained by a second, successful query, a
\* successful DVD probe sets m_media_type = 1, m_layer_break = e0 - s0 and
\* m_sectors = (e0 - s0 + 1) + (e1 - s1 + 1), modulo 2^32
C14_ParallelTrackGeometry ==
    (DvdResolved /\ Descriptor.nlayers > 0 /\ Descriptor.track_path = 0) =>
        LET s0 == Descriptor.start_sector
            e0 == Descriptor.end_sector
            s1 == DvdQueries[2].data.layer1.start_sector
            e1 == DvdQueries[2].data.layer1.end_sector
        IN  /\ Len(DvdQueries) = 2
            /\ DvdQueries[1].arg = 0
            /\ DvdQueries[2].arg = 1
            /\ m_media_type = 1
            /\ m_layer_break = Sub32(e0, s0)
            /\ m_sectors = Add32(Extent(s0, e0), Extent(s1, e1))

C14_Witness ==
    /\ DvdResolved
    /\ Descriptor.nlayers > 0
    /\ Descriptor.track_path = 0
    /\ Len(DvdQueries) = 2
    /\ Descriptor.start_sector # DvdQueries[2].data.layer1.start_sector
    /\ m_media_type = 1

\* C15: for a single-layer DVD (nlayers = 0) with layer-0 start and end
\* sectors, a successful DVD probe sets m_sectors = end - start + 1,
\* m_layer_break = 0 and m_media_type = 0, issues exactly one descriptor query,
\* and the CD probe is not run
C15_SingleLayerGeometry ==
    (DvdResolved /\ Descriptor.nlayers = 0) =>
        /\ m_sectors = Extent(Descriptor.start_sector, Descriptor.end_sector)
        /\ m_layer_break = Zero32
        /\ m_media_type = 0
        /\ Len(DvdQueries) = 1
        /\ ~Issued("CDROMREADTOCHDR")
        /\ ~Issued("CDROMREADTOCENTRY")

C15_Witness ==
    /\ DvdResolved
    /\ Descriptor.nlayers = 0
    /\ Descriptor.start_sector = FromInt(196608)
    /\ Descriptor.end_sector = FromInt(200000)
    /\ m_sectors = FromInt(3393)
    /\ Len(DvdQueries) = 1

\* a CD probe ran on a session holding a TOC and its header read failed
HeaderFailedOnToc ==
    /\ Returned
    /\ op \in ProbingOps
    /\ IssuedWith("CDROMREADTOCHDR", FALSE)
    /\ tocBefore # <<>>

\* C16: when a CD probe runs on a session that holds a non-empty TOC and its
\* header read fails, the session is left with an empty TOC
C16_EmptyTocAfterHeaderFailure == HeaderFailedOnToc => m_toc = <<>>

\* C16 as amended: when a CD probe runs on a session that holds a non-empty
\* TOC and its header read fails, the session keeps that TOC: it is cleared
\* only after the header has been read
C16_TocKeptAfterHeaderFailure == HeaderFailedOnToc => m_toc = tocBefore

C16_Witness ==
    /\ HeaderFailedOnToc
    /\ Len(tocBefore) = 2
    /\ m_toc = tocBefore
    /\ ~Issued("CDROMREADTOCENTRY")

IsEntryRead(c) == c.call = "CDROMREADTOCENTRY"

\* the CDROMREADTOCENTRY calls of the running or last operation
EntryReads == SelectSeq(calls, IsEntryRead)

\* the track numbers h.cdth_trk0 .. h.cdth_trk1, in order
TracksOf(h) ==
    [i \in 1 .. (IF h.cdth_trk1 >= h.cdth_trk0
                 THEN h.cdth_trk1 - h.cdth_trk0 + 1 ELSE 0) |->
        h.cdth_trk0 + i - 1]

\* a step of the CD probe: up to the loop, inside it, or from it to the return
CdProbeStep ==
    /\ pc' = "cd_loop" =>
          m_sectors' = m_sectors /\ m_media_type' = m_media_type
    /\ (pc = "idle" /\ pc' = "idle" /\ IssuedWith("CDROMREADTOCHDR", FALSE)') =>
          ~Issued("CDROMREADTOCENTRY")' /\ ~Issued("SetSpindleSpeed")'
    /\ (pc = "cd_loop" /\ pc' = "idle") =>
          LET reads == EntryReads'
              tracks == TracksOf(header)
              leadout == reads[Len(reads)]
          IN  /\ Len(reads) = Len(tracks) + 1
              /\ \A i \in DOMAIN tracks : reads[i].arg = tracks[i]
              /\ leadout.arg = LeadOutTrack
              /\ IF leadout.ok
                 THEN /\ Issued("SetSpindleSpeed")'
                      /\ m_sectors' = S32ToU32(leadout.entry.lba)
                      /\ m_media_type' = -1
                 ELSE /\ ~Issued("SetSpindleSpeed")'
                      /\ m_sectors' = m_sectors
                      /\ m_media_type' = m_media_type

\* C17: the outcome of a CD probe depends only on the header read and the
\* lead-out read: every track cdth_trk0 .. cdth_trk1 is read whether or not the
\* reads before it failed; if the lead-out read fails the probe fails and
\* m_sectors and m_media_type keep their values; if it succeeds the probe
\* succeeds with m_sectors = lead-out LBA and m_media_type = -1
C17_OutcomeFromHeaderAndLeadOut == [][CdProbeStep]_vars

C17_Witness ==
    /\ Returned
    /\ op = "Reopen"
    /\ Len(EntryReads) = 3
    /\ ~EntryReads[1].ok
    /\ EntryReads[2].ok
    /\ ~EntryReads[3].ok
    /\ EntryReads[3].arg = LeadOutTrack
    /\ m_media_type = 0
    /\ m_sectors = FromInt(3393)

\* the call issued right after the last DVD_READ_STRUCT call
AfterDvdQueries ==
    LET last == CHOOSE i \in DOMAIN calls :
                    /\ IsDvdQuery(calls[i])
                    /\ \A j \in DOMAIN calls : IsDvdQuery(calls[j]) => j <= i
    IN  IF last < Len(calls) THEN calls[last + 1].call ELSE "none"

\* a call of Reopen or DiscReady in which the DVD probe failed, up to the
\* return or to the for loop of the CD probe
FailedDvdProbeStep ==
    (pc = "idle" /\ op' \in ProbingOps /\ DvdProbeFailed') =>
        /\ m_sectors' = m_sectors
        /\ m_layer_break' = m_layer_break
        /\ m_media_type' = m_media_type
        /\ AfterDvdQueries' = "CDROMREADTOCHDR"
        /\ IssuedWith("CDROMREADTOCHDR", FALSE)' => m_toc' = m_toc

\* C18: a DVD probe that fails, at the layer-0 query or at the layer-1 query
\* of a parallel-track dual-layer disc, leaves m_sectors, m_layer_break,
\* m_media_type and m_toc as they were before the probe (m_toc is next cleared
\* by the CD probe, once its header read has succeeded), and the CD probe is
\* attempted next
C18_FailedDvdProbeChangesNothing == [][FailedDvdProbeStep]_vars

C18_Witness ==
    /\ Returned
    /\ op = "Reopen"
    /\ Len(DvdQueries) = 2
    /\ DvdQueries[1].ok
    /\ ~DvdQueries[2].ok
    /\ IssuedWith("CDROMREADTOCHDR", FALSE)
    /\ m_media_type = 2
    /\ m_layer_break = FromInt(1392)
    /\ Len(m_toc) = 2

\* C19: the CD probe terminates for every TOC header, issuing exactly
\* max(0, cdth_trk1 - cdth_trk0 + 1) per-track reads before the lead-out read:
\* inside the loop no more reads than that have been issued, and the probe
\* returns after exactly that many
C19_TerminatesAfterExactReads ==
    /\ pc = "cd_loop" => TrackReads(calls) <= Len(TracksOf(header))
    /\ (Returned /\ op \in ProbingOps /\ IssuedWith("CDROMREADTOCHDR", TRUE)) =>
          /\ TrackReads(calls) = Len(TracksOf(header))
          /\ Len(EntryReads) = TrackReads(calls) + 1
          /\ EntryReads[Len(EntryReads)].arg = LeadOutTrack

\* the descriptors the session holds
Held == IF m_device = NoDevice THEN {} ELSE {m_device}

\* the calls that use the descriptor
DeviceCalls == ProbeCalls \cup {"CDROM_DRIVE_STATUS"}

\* within one operation the handle is closed before the next is opened, and
\* once it is closed the device is used only after a successful open
HandleOrder ==
    \A i \in DOMAIN calls :
        /\ calls[i].call = "close" =>
              \A j \in DOMAIN calls :
                  /\ (calls[j].call = "close" /\ j # i) =>
                        \E k \in DOMAIN calls :
                            /\ calls[k].call = "open" /\ calls[k].ok
                            /\ (i < k /\ k < j) \/ (j < k /\ k < i)
                  /\ (calls[j].call \in DeviceCalls /\ i < j) =>
                        \E k \in DOMAIN calls :
                            calls[k].call = "open" /\ calls[k].ok /\ i < k /\ k < j
        /\ calls[i].call = "open" =>
              \A j \in DOMAIN calls :
                  /\ calls[j].call = "open" => j = i
                  /\ calls[j].call = "close" => j < i
                  /\ (calls[j].call \in ProbeCalls /\ calls[i].ok) => i < j
                  /\ (calls[j].call \in ProbeCalls /\ ~calls[i].ok) => FALSE

\* C20: over any sequence of Reopen and DiscReady calls followed by
\* destruction, at most one descriptor is open at any time and it is the one
\* the session holds; no descriptor is closed that is not open; the device is
\* not used between a close and the next successful open; destruction with an
\* open descriptor calls SetSpindleSpeed(true), then close, and leaves no
\* descriptor open
C20_OneHandleClosedOnce ==
    /\ Cardinality(fds) <= 1
    /\ ~badClose
    /\ pc # "destroyed" => fds = Held
    /\ HandleOrder
    /\ pc = "destroyed" =>
          /\ fds = {}
          /\ IF m_device = NoDevice
             THEN calls = <<>>
             ELSE /\ Len(calls) = 2
                  /\ calls[1].call = "SetSpindleSpeed" /\ calls[1].arg = 1
                  /\ calls[2].call = "close" /\ calls[2].arg = m_device

C20_Witness ==
    /\ pc = "destroyed"
    /\ m_device # NoDevice
    /\ Len(calls) = 2
    /\ calls[2].call = "close"
    /\ fds = {}
    /\ m_toc # <<>>

====
